---- MODULE Spec2Model ----
(***************************************************************************)
(* PDF -> PPTX converter with watermark patching (xtrans.py, app.py).      *)
(*                                                                         *)
(* Two front ends run the same pipeline:                                   *)
(*   xtrans : main() -> remove_watermark_from_pdf(input, output, dpi)      *)
(*   app    : remove_watermark_and_convert(pdf_file, dpi, progress)        *)
(*                                                                         *)
(* A page image is a record of its size, its colour mode and the page it   *)
(* was rasterized from.  Its pixels are given by RasterPixel, the content  *)
(* the rasterizer produced, except for one observed pixel (probe) whose    *)
(* current value is carried in the record (val): draw.point and convert    *)
(* act on every pixel independently, so the observed pixel stands for any  *)
(* pixel of the image.  A record with probe = <<>> observes no pixel.      *)
(***************************************************************************)
EXTENDS Integers, Sequences, FiniteSets, TLC

\* ------------------------------------------------------------- bounds
MaxPages == 2            \* pages returned by the rasterizer

\* Page sizes the rasterizer returns: the 1000x700 scenario, one pixel larger
\* than the region, exactly the region, narrower, shorter, both, one pixel.
PageSizes ==
    { <<1000, 700>>, <<151, 36>>, <<150, 35>>, <<100, 50>>, <<200, 20>>, <<1, 1>> }
Modes == {"RGB", "RGBA"}

\* ------------------------------------------------- program constants
watermark_width == 150
watermark_height == 35

\* dpi when none is given: int(sys.argv[3]) if len(sys.argv) >= 4 else 100
DefaultDpi == 100

\* dpi values given on the command line or by the slider (72 .. 200); runs
\* that observe a pixel are made at the default dpi
Dpis(observed) == IF observed THEN {DefaultDpi} ELSE {72, DefaultDpi, 200}

\* ------------------------------------------------------------ helpers
Max2(a, b) == IF a >= b THEN a ELSE b
Min2(a, b) == IF a <= b THEN a ELSE b

\* a range that takes its end as well
RangeInclusive(a, b) == a .. b

\* range(a, b) of Python
Range(a, b) == a .. (b - 1)

\* Colours the rasterized test content is made of; the channel values 0, 1,
\* 254, 255 make the clamping at both ends happen.
Palette == << <<0, 1, 255>>, <<254, 128, 3>>, <<255, 0, 127>>, <<2, 253, 64>> >>

\* The pixel (x, y) of a page as rasterized, in the page's colour mode.
RasterPixel(img, x, y) ==
    LET c == Palette[((x + y + img.page) % 4) + 1]
    IN  IF img.mode = "RGB" THEN c ELSE Append(c, 255 - ((x + y) % 2) * 100)

InBounds(img, x, y) == 0 <= x /\ x < img.width /\ 0 <= y /\ y < img.height

\* image.getpixel((x, y))
getpixel(img, x, y) ==
    IF img.probe = <<x, y>> THEN img.val ELSE RasterPixel(img, x, y)

\* a rectangle one column wider than the region
WatermarkRectWide(width, height) ==
    [x1 |-> width - watermark_width - 1, y1 |-> height - watermark_height,
     x2 |-> width,                       y2 |-> height]

\* x1, y1, x2, y2 of the watermark rectangle
WatermarkRect(width, height) ==
    [x1 |-> width - watermark_width, y1 |-> height - watermark_height,
     x2 |-> width,                   y2 |-> height]

\* the top reference read without its fallback
TopRefNoFallback(width, height, r) == <<width - 1, r.y1 - 1>>

\* where pixel_top is read: (width - 1, y1 - 1) if y1 > 0, else the fallback
\* to pixel_bottom_right (<<>>: nothing is read)
TopRef(width, height, r) == IF r.y1 > 0 THEN <<width - 1, r.y1 - 1>> ELSE <<>>

\* where pixel_left is read: (x1 - 1, height - 1) if x1 > 0, else the fallback
LeftRef(width, height, r) == IF r.x1 > 0 THEN <<r.x1 - 1, height - 1>> ELSE <<>>

\* the reference colour read at xy, or the fallback colour
RefPixel(img, xy, fallback) ==
    IF xy = <<>> THEN fallback ELSE getpixel(img, xy[1], xy[2])

\* a clamp that forgets the upper end
ClampLow(v) == Max2(0, v)

\* max(0, min(255, v))
Clamp(v) == Max2(0, Min2(255, v))

\* random.randint(-2, 2)
Noise == -2 .. 2

\* the colour chosen by choice = random.randint(0, 2)
ChooseColor(choice, br, top, left) ==
    IF choice = 0 THEN br ELSE IF choice = 1 THEN top ELSE left

\* the colour written by draw.point for one pixel
Perturb(color, dr, dg, db) ==
    IF Len(color) >= 3
    THEN LET r == Clamp(color[1] + dr)
             g == Clamp(color[2] + dg)
             b == Clamp(color[3] + db)
         IN  IF Len(color) = 3 THEN <<r, g, b>> ELSE <<r, g, b, color[4]>>
    ELSE color

\* the colours one pass of the inner loop may hand to draw.point
Fills(br, top, left) ==
    { Perturb(ChooseColor(choice, br, top, left), dr, dg, db) :
        choice \in 0 .. 2, dr \in Noise, dg \in Noise, db \in Noise }

\* draw.point((x, y), fill = color): points outside the image are clipped
DrawPoint(img, x, y, color) ==
    IF InBounds(img, x, y) /\ img.probe = <<x, y>>
    THEN [img EXCEPT !.val = color]
    ELSE img

\* image.convert('RGB') when image.mode != 'RGB': alpha is dropped
ConvertRGB(img) ==
    IF img.mode # "RGB"
    THEN [img EXCEPT !.mode = "RGB",
                     !.val = IF img.probe = <<>> THEN <<>> ELSE SubSeq(img.val, 1, 3)]
    ELSE img

\* a loop test that stops one element early
HasNextButLast(i, seq) == i + 1 < Len(seq)

\* the for loops' test: is there a next element after i of them
HasNext(i, seq) == i < Len(seq)

\* ------------------------------------------------------ rasterizer output
Page(p, size, mode, xy) ==
    LET blank == [page |-> p, width |-> size[1], height |-> size[2], mode |-> mode,
                  probe |-> xy, val |-> <<>>]
    IN  IF xy = <<>> THEN blank
        ELSE [blank EXCEPT !.val = RasterPixel(blank, xy[1], xy[2])]

\* pixels worth observing on a width x height page: the corners of the
\* watermark rectangle, their neighbours outside it, the image's origin
Probes(width, height) ==
    LET r == WatermarkRect(width, height)
    IN  { xy \in { <<r.x1, r.y1>>, <<r.x2 - 1, r.y2 - 1>>, <<r.x1, r.y2 - 1>>,
                   <<r.x1 - 1, r.y2 - 1>>, <<r.x2 - 1, r.y1 - 1>>,
                   <<r.x1 - 1, r.y1 - 1>>, <<0, 0>> } :
            0 <= xy[1] /\ xy[1] < width /\ 0 <= xy[2] /\ xy[2] < height }

\* what convert_from_path may return when it succeeds
UnobservedOutputs ==
    UNION { { [p \in 1 .. n |-> Page(p, k[p][1], k[p][2], <<>>)] :
                k \in [1 .. n -> PageSizes \X Modes] } : n \in 0 .. MaxPages }

\* the pages that carry an observed pixel: <<size, mode, probe>>
ObservedKinds ==
    UNION { { <<size, mode, xy>> : mode \in Modes, xy \in Probes(size[1], size[2]) }
            : size \in PageSizes }

\* the same, with one pixel of one page observed
ObservedOutputs ==
    UNION { { [p \in 1 .. n |->
                 IF p = o THEN Page(p, k[1], k[2], k[3])
                 ELSE Page(p, <<1000, 700>>, "RGB", <<>>)] :
                o \in 1 .. n, k \in ObservedKinds }
          : n \in 1 .. MaxPages }

\* ---------------------------------------------------------------- state
VARIABLES
    prog,               \* "xtrans" or "app": the front end that runs
    observe,            \* whether the run observes a pixel of a page
    pc,                 \* position in the program
    err,                \* the exception raised, "" if none
    exit_code,          \* exit status of the process, -1 while it runs
    cause,              \* why main() ended
    entered,            \* remove_watermark_from_pdf has been called
    dpi,                \* the dpi handed to the conversion, 0 before it is read
    raster,             \* how convert_from_path ended: "", "ok" or "failed"
    convert_calls,      \* calls of convert_from_path
    images,             \* images returned by convert_from_path
    i,                  \* pages done by the page loop
    image,              \* the page loop's image
    rect,               \* x1, y1, x2, y2
    pixel_bottom_right, pixel_top, pixel_left,
    reads,              \* coordinates read by getpixel for this page
    reads_after,        \* draw.point calls on this page before those reads
    point_calls,        \* draw.point calls on this page
    processed_images,
    j,                  \* slides done by the slide loop
    slides,             \* prs.slides
    saved,              \* the presentations written by prs.save, in order
    progress_log        \* the values passed to progress(), in order

ctl == <<prog, observe>>
mainv == <<exit_code, cause, entered>>
rastv == <<convert_calls, raster, images>>
pagev == <<image, rect, pixel_bottom_right, pixel_top, pixel_left, reads,
           reads_after, point_calls>>
deckv == <<j, slides, saved>>
vars == <<prog, observe, pc, err, exit_code, cause, entered, dpi, raster,
          convert_calls, images,
          i, image, rect, pixel_bottom_right, pixel_top, pixel_left, reads,
          reads_after, point_calls, processed_images, j, slides, saved,
          progress_log>>

NoRect == [x1 |-> 0, y1 |-> 0, x2 |-> 0, y2 |-> 0]
NoImage == [page |-> 0, width |-> 0, height |-> 0, mode |-> "", probe |-> <<>>,
            val |-> <<>>]

Start(p, o) ==
    /\ prog = p
    /\ observe = o
    /\ pc = IF p = "xtrans" THEN "main" ELSE "handler"
    /\ err = ""
    /\ exit_code = -1
    /\ cause = ""
    /\ entered = FALSE
    /\ dpi = 0
    /\ raster = ""
    /\ convert_calls = 0
    /\ images = <<>>
    /\ i = 0
    /\ image = NoImage
    /\ rect = NoRect
    /\ pixel_bottom_right = <<>>
    /\ pixel_top = <<>>
    /\ pixel_left = <<>>
    /\ reads = {}
    /\ reads_after = 0
    /\ point_calls = 0
    /\ processed_images = <<>>
    /\ j = 0
    /\ slides = <<>>
    /\ saved = <<>>
    /\ progress_log = <<>>

Init == \E p \in {"xtrans", "app"} : Start(p, FALSE)
InitObserved == \E p \in {"xtrans", "app"} : Start(p, TRUE)

\* an exception that is swallowed: the run goes on to the save
RaiseAndGoOn(kind) == pc' = "save" /\ err' = kind

\* an exception leaves the function
Raise(kind) == pc' = "raised" /\ err' = kind

\* ------------------------------------------------ steps both front ends share
\* the page loop takes its next image
NextImage ==
    /\ image' = images[i + 1]
    /\ reads' = {}
    /\ reads_after' = 0
    /\ point_calls' = 0
    /\ UNCHANGED <<rect, pixel_bottom_right, pixel_top, pixel_left>>

\* image.size, the rectangle and the three reference pixels; a malformed
\* page image makes the reads raise
SampleStep ==
    /\ pc = "sample"
    /\ \E malformed \in BOOLEAN :
         IF malformed
         THEN /\ Raise("PageFailure")
              /\ UNCHANGED pagev
         ELSE LET width == image.width
                  height == image.height
                  r == WatermarkRect(width, height)
                  top == TopRef(width, height, r)
                  left == LeftRef(width, height, r)
                  br == getpixel(image, width - 1, height - 1)
              IN  /\ rect' = r
                  /\ pixel_bottom_right' = br
                  /\ pixel_top' = RefPixel(image, top, br)
                  /\ pixel_left' = RefPixel(image, left, br)
                  /\ reads' = ({<<width - 1, height - 1>>, top, left}) \ {<<>>}
                  /\ reads_after' = point_calls
                  /\ pc' = "patch"
                  /\ UNCHANGED <<err, image, point_calls>>
    /\ UNCHANGED <<ctl, dpi, mainv, rastv, i, processed_images, deckv,
                   progress_log>>

\* the two nested loops over range(x1, x2) and range(y1, y2): one draw.point
\* per (x, y), each with its own random colour.  Only the observed pixel's
\* draw shows in the record; the image is changed in place, so the element
\* of images changes with it.
PatchStep ==
    /\ pc = "patch"
    /\ LET xs == Range(rect.x1, rect.x2)
           ys == Range(rect.y1, rect.y2)
           observed == /\ image.probe # <<>>
                       /\ image.probe[1] \in xs
                       /\ image.probe[2] \in ys
           drawn == IF observed
                    THEN { DrawPoint(image, image.probe[1], image.probe[2], color) :
                             color \in Fills(pixel_bottom_right, pixel_top, pixel_left) }
                    ELSE {image}
       IN  /\ \E d \in drawn :
                /\ image' = d
                /\ images' = [images EXCEPT ![i + 1] = d]
           /\ point_calls' = point_calls + Cardinality(xs) * Cardinality(ys)
    /\ pc' = "append"
    /\ UNCHANGED <<ctl, dpi, err, mainv, convert_calls, raster, i, rect,
                   pixel_bottom_right, pixel_top, pixel_left, reads, reads_after,
                   processed_images, deckv, progress_log>>

\* convert to RGB if needed, processed_images.append(image)
AppendStep ==
    /\ pc = "append"
    /\ image' = ConvertRGB(image)
    /\ processed_images' = Append(processed_images, ConvertRGB(image))
    /\ i' = i + 1
    /\ pc' = "page_head"
    /\ UNCHANGED <<ctl, dpi, err, mainv, rastv, rect, pixel_bottom_right,
                   pixel_top, pixel_left, reads, reads_after, point_calls, deckv,
                   progress_log>>

\* image.save(img_stream, format = 'PNG')
PNG(img) == [format |-> "PNG", image |-> img]

\* add_slide, image.save to PNG, add_picture; any of them may raise
AddSlideStep ==
    /\ pc = "add_slide"
    /\ \E fails \in BOOLEAN :
         IF fails
         THEN /\ Raise("SlideFailure")
              /\ UNCHANGED <<j, slides>>
         ELSE /\ slides' = Append(slides, [picture |-> PNG(processed_images[j + 1]),
                                           left |-> 0, top |-> 0])
              /\ j' = j + 1
              /\ pc' = "slide_head"
              /\ UNCHANGED err
    /\ UNCHANGED <<ctl, dpi, mainv, rastv, i, pagev, processed_images,
                   saved, progress_log>>

\* what convert_from_path returns when it succeeds
Outputs == IF observe THEN ObservedOutputs ELSE UnobservedOutputs

\* ------------------------------------------------------ xtrans.py: main()
\* sys.argv is read, or the file dialog is shown.  int(sys.argv[3]) is
\* outside the try: a ValueError there is uncaught and the interpreter ends
\* the process with status 1.
main_ParseArgs ==
    /\ prog = "xtrans" /\ pc = "main"
    /\ \E argc \in 1 .. 4, dpi_is_int \in BOOLEAN, given \in Dpis(observe), picked \in BOOLEAN :
         IF argc >= 2
         THEN IF argc >= 4 /\ ~dpi_is_int
              THEN /\ pc' = "exited"
                   /\ err' = "ValueError"
                   /\ exit_code' = 1
                   /\ cause' = "argument_error"
                   /\ UNCHANGED dpi
              ELSE /\ pc' = "check_exists"
                   /\ dpi' = IF argc >= 4 THEN given ELSE DefaultDpi
                   /\ UNCHANGED <<err, exit_code, cause>>
         ELSE IF ~picked
              THEN /\ pc' = "exited"
                   /\ exit_code' = 0
                   /\ cause' = "cancelled"
                   /\ UNCHANGED <<err, dpi>>
              ELSE /\ pc' = "check_exists"
                   /\ dpi' = DefaultDpi
                   /\ UNCHANGED <<err, exit_code, cause>>
    /\ UNCHANGED <<ctl, entered, rastv, i, pagev, processed_images,
                   deckv, progress_log>>

\* Path(input_pdf).exists()
main_CheckExists ==
    /\ prog = "xtrans" /\ pc = "check_exists"
    /\ \E exists \in BOOLEAN :
         IF ~exists
         THEN /\ pc' = "exited"
              /\ exit_code' = 1
              /\ cause' = "missing"
         ELSE /\ pc' = "call"
              /\ UNCHANGED <<exit_code, cause>>
    /\ UNCHANGED <<ctl, dpi, err, entered, rastv, i, pagev,
                   processed_images, deckv, progress_log>>

\* try: remove_watermark_from_pdf(input_pdf, output_pptx, dpi)
main_Call ==
    /\ prog = "xtrans" /\ pc = "call"
    /\ entered' = TRUE
    /\ pc' = "rasterize"
    /\ UNCHANGED <<ctl, dpi, err, exit_code, cause, rastv, i, pagev,
                   processed_images, deckv, progress_log>>

\* an except clause that ends the process with status 0
main_ExceptExitZero ==
    /\ prog = "xtrans" /\ pc = "raised"
    /\ pc' = "exited"
    /\ exit_code' = 0
    /\ cause' = "processing_error"
    /\ UNCHANGED <<ctl, dpi, err, entered, rastv, i, pagev,
                   processed_images, deckv, progress_log>>

\* except Exception: print, traceback, sys.exit(1)
main_Except ==
    /\ prog = "xtrans" /\ pc = "raised"
    /\ pc' = "exited"
    /\ exit_code' = 1
    /\ cause' = "processing_error"
    /\ UNCHANGED <<ctl, dpi, err, entered, rastv, i, pagev,
                   processed_images, deckv, progress_log>>

\* the call returns and main() ends: status 0
main_Return ==
    /\ prog = "xtrans" /\ pc = "returned"
    /\ pc' = "exited"
    /\ exit_code' = 0
    /\ cause' = "success"
    /\ UNCHANGED <<ctl, dpi, err, entered, rastv, i, pagev,
                   processed_images, deckv, progress_log>>

\* ------------------------------- xtrans.py: remove_watermark_from_pdf
\* a rasterization that is tried again when it fails
xtrans_RasterizeRetry ==
    /\ prog = "xtrans" /\ pc = "rasterize"
    /\ convert_calls' = convert_calls + 1
    /\ \E ok \in BOOLEAN :
         IF ~ok
         THEN /\ raster' = "failed"
              /\ UNCHANGED <<pc, err, images>>
         ELSE /\ raster' = "ok"
              /\ \E out \in Outputs : images' = out
              /\ pc' = "page_head"
              /\ UNCHANGED err
    /\ UNCHANGED <<ctl, dpi, mainv, i, pagev, processed_images, deckv, progress_log>>

\* images = convert_from_path(input_pdf_path, dpi = dpi); its exception is
\* not caught here
xtrans_Rasterize ==
    /\ prog = "xtrans" /\ pc = "rasterize"
    /\ convert_calls' = convert_calls + 1
    /\ \E ok \in BOOLEAN :
         IF ~ok
         THEN /\ raster' = "failed"
              /\ Raise("RasterizerError")
              /\ UNCHANGED images
         ELSE /\ raster' = "ok"
              /\ \E out \in Outputs : images' = out
              /\ pc' = "page_head"
              /\ UNCHANGED err
    /\ UNCHANGED <<ctl, dpi, mainv, i, pagev, processed_images, deckv, progress_log>>

\* for page_num, image in enumerate(images, 1)
xtrans_PageHead ==
    /\ prog = "xtrans" /\ pc = "page_head"
    /\ IF HasNext(i, images)
       THEN NextImage /\ pc' = "sample"
       ELSE pc' = "deck" /\ UNCHANGED pagev
    /\ UNCHANGED <<ctl, dpi, err, mainv, rastv, i, processed_images,
                   deckv, progress_log>>

xtrans_Sample == prog = "xtrans" /\ SampleStep
xtrans_Patch == prog = "xtrans" /\ PatchStep
xtrans_Append == prog = "xtrans" /\ AppendStep

\* prs = Presentation(), slide size 10 x 5.625 inches
xtrans_Deck ==
    /\ prog = "xtrans" /\ pc = "deck"
    /\ slides' = <<>>
    /\ j' = 0
    /\ pc' = "slide_head"
    /\ UNCHANGED <<ctl, dpi, err, mainv, rastv, i, pagev,
                   processed_images, saved, progress_log>>

\* for page_num, image in enumerate(processed_images, 1)
xtrans_SlideHead ==
    /\ prog = "xtrans" /\ pc = "slide_head"
    /\ pc' = IF HasNext(j, processed_images) THEN "add_slide" ELSE "save"
    /\ UNCHANGED <<ctl, dpi, err, mainv, rastv, i, pagev,
                   processed_images, deckv, progress_log>>

xtrans_AddSlide == prog = "xtrans" /\ AddSlideStep

\* prs.save(output_pptx_path), then the sizes are printed
xtrans_Save ==
    /\ prog = "xtrans" /\ pc = "save"
    /\ \E fails \in BOOLEAN :
         IF fails
         THEN /\ Raise("OutputWriteFailed")
              /\ UNCHANGED saved
         ELSE /\ saved' = Append(saved, slides)
              /\ pc' = "returned"
              /\ UNCHANGED err
    /\ UNCHANGED <<ctl, dpi, mainv, rastv, i, pagev, processed_images,
                   j, slides, progress_log>>

\* ------------------------------ app.py: remove_watermark_and_convert
\* total_pages = len(images)
total_pages == Len(images)

\* Progress values are the fractions <<numerator, denominator>>.
\* (i / total_pages) * 0.5
PageProgress(k, total) == <<k, 2 * total>>

\* the slide fraction without its 0.5
SlideProgressNoBase(k, total) == <<k, 2 * total>>

\* 0.5 + ((i / total_pages) * 0.5)
SlideProgress(k, total) == <<total + k, 2 * total>>

\* progress(value, desc = ...)
Report(value) == progress_log' = Append(progress_log, value)

\* if pdf_file is None: return None; else progress(0, ...)
app_Handler ==
    /\ prog = "app" /\ pc = "handler"
    /\ \E is_none \in BOOLEAN, given \in Dpis(observe) :
         IF is_none
         THEN pc' = "returned" /\ UNCHANGED <<dpi, progress_log>>
         ELSE pc' = "rasterize" /\ dpi' = given /\ Report(<<0, 1>>)
    /\ UNCHANGED <<ctl, err, mainv, rastv, i, pagev,
                   processed_images, deckv>>

\* try: images = convert_from_path(pdf_file.name, dpi = dpi)
\* except Exception as e: raise gr.Error("Error reading PDF. ...")
app_Rasterize ==
    /\ prog = "app" /\ pc = "rasterize"
    /\ convert_calls' = convert_calls + 1
    /\ \E ok \in BOOLEAN :
         IF ~ok
         THEN /\ raster' = "failed"
              /\ Raise("gr.Error: Error reading PDF")
              /\ UNCHANGED images
         ELSE /\ raster' = "ok"
              /\ \E out \in Outputs : images' = out
              /\ pc' = "page_head"
              /\ UNCHANGED err
    /\ UNCHANGED <<ctl, dpi, mainv, i, pagev, processed_images, deckv, progress_log>>

\* a page loop that computes its fraction before it tests for a next image
app_PageHeadEager ==
    /\ prog = "app" /\ pc = "page_head"
    /\ IF total_pages = 0
       THEN Raise("ZeroDivisionError") /\ UNCHANGED <<pagev, progress_log>>
       ELSE IF HasNext(i, images)
            THEN /\ Report(PageProgress(i, total_pages))
                 /\ NextImage
                 /\ pc' = "sample"
                 /\ UNCHANGED err
            ELSE pc' = "deck" /\ UNCHANGED <<err, pagev, progress_log>>
    /\ UNCHANGED <<ctl, dpi, mainv, rastv, i, processed_images, deckv>>

\* for i, image in enumerate(images): progress((i / total_pages) * 0.5, ...)
app_PageHead ==
    /\ prog = "app" /\ pc = "page_head"
    /\ IF HasNext(i, images)
       THEN IF total_pages = 0
            THEN Raise("ZeroDivisionError") /\ UNCHANGED <<pagev, progress_log>>
            ELSE /\ Report(PageProgress(i, total_pages))
                 /\ NextImage
                 /\ pc' = "sample"
                 /\ UNCHANGED err
       ELSE pc' = "deck" /\ UNCHANGED <<err, pagev, progress_log>>
    /\ UNCHANGED <<ctl, dpi, mainv, rastv, i, processed_images, deckv>>

app_Sample == prog = "app" /\ SampleStep
app_Patch == prog = "app" /\ PatchStep
app_Append == prog = "app" /\ AppendStep

\* progress(0.5, ...); prs = Presentation(), slide size 10 x 5.625 inches
app_Deck ==
    /\ prog = "app" /\ pc = "deck"
    /\ Report(<<1, 2>>)
    /\ slides' = <<>>
    /\ j' = 0
    /\ pc' = "slide_head"
    /\ UNCHANGED <<ctl, dpi, err, mainv, rastv, i, pagev,
                   processed_images, saved>>

\* for i, image in enumerate(processed_images):
\*     progress(0.5 + ((i / total_pages) * 0.5), ...)
app_SlideHead ==
    /\ prog = "app" /\ pc = "slide_head"
    /\ IF HasNext(j, processed_images)
       THEN IF total_pages = 0
            THEN Raise("ZeroDivisionError") /\ UNCHANGED progress_log
            ELSE /\ Report(SlideProgress(j, total_pages))
                 /\ pc' = "add_slide"
                 /\ UNCHANGED err
       ELSE pc' = "save" /\ UNCHANGED <<err, progress_log>>
    /\ UNCHANGED <<ctl, dpi, mainv, rastv, i, pagev, processed_images,
                   deckv>>

app_AddSlide == prog = "app" /\ AddSlideStep

\* prs.save(output_path); progress(1.0, desc = "Done!"); return output_path
app_Save ==
    /\ prog = "app" /\ pc = "save"
    /\ \E fails \in BOOLEAN :
         IF fails
         THEN /\ Raise("OutputWriteFailed")
              /\ UNCHANGED <<saved, progress_log>>
         ELSE /\ saved' = Append(saved, slides)
              /\ Report(<<1, 1>>)
              /\ pc' = "returned"
              /\ UNCHANGED err
    /\ UNCHANGED <<ctl, dpi, mainv, rastv, i, pagev, processed_images,
                   j, slides>>

\* ------------------------------------------------------- specifications
Next ==
    \/ main_ParseArgs \/ main_CheckExists \/ main_Call \/ main_Except \/ main_Return
    \/ xtrans_Rasterize \/ xtrans_PageHead \/ xtrans_Sample \/ xtrans_Patch
    \/ xtrans_Append \/ xtrans_Deck \/ xtrans_SlideHead \/ xtrans_AddSlide
    \/ xtrans_Save
    \/ app_Handler \/ app_Rasterize \/ app_PageHead \/ app_Sample \/ app_Patch
    \/ app_Append \/ app_Deck \/ app_SlideHead \/ app_AddSlide \/ app_Save

\* runs over up to MaxPages pages of every size and mode, no pixel observed
Spec == Init /\ [][Next]_vars

\* runs that observe one pixel of one page
SpecObserved == InitObserved /\ [][Next]_vars

\* ================================================================ claims
\* the pages the rasterizer returned have gone through convert_from_path
Rasterized == raster = "ok"

\* C1: when the conversion completes on N page images, the presentation that
\* is saved has exactly N slides and the picture on slide k is the PNG of the
\* patched, RGB-converted image of page k, in both front ends.
C1_SlidesFollowPages ==
    \A s \in 1 .. Len(saved) :
        /\ Len(saved[s]) = Len(images)
        /\ \A k \in 1 .. Len(saved[s]) :
              /\ saved[s][k].picture.format = "PNG"
              /\ saved[s][k].picture.image.page = k
              /\ saved[s][k].picture.image = ConvertRGB(images[k])

\* a two-page document of two different page sizes has been saved
C1_Witness ==
    /\ Len(saved) = 1
    /\ Len(saved[1]) = 2
    /\ saved[1][1].picture.image.width # saved[1][2].picture.image.width

\* the rectangle the claims name for a w x h image: w-150 <= x < w, h-35 <= y < h
InClaimedRect(w, h, x, y) == w - 150 <= x /\ x < w /\ h - 35 <= y /\ y < h

\* the processed images whose observed pixel lies outside that rectangle
OutsideObserved ==
    { k \in 1 .. Len(processed_images) :
        /\ processed_images[k].probe # <<>>
        /\ ~InClaimedRect(images[k].width, images[k].height,
                          processed_images[k].probe[1], processed_images[k].probe[2]) }

\* C2 as stated: every processed image has the size of the rasterized page,
\* and each of its pixels outside the rectangle is byte-identical to the same
\* pixel of the rasterized page, whatever the page's mode (RGB or RGBA).
C2_OutsideByteIdentical ==
    /\ \A k \in 1 .. Len(processed_images) :
          /\ processed_images[k].width = images[k].width
          /\ processed_images[k].height = images[k].height
    /\ \A k \in OutsideObserved :
          processed_images[k].val =
              RasterPixel(images[k], processed_images[k].probe[1],
                          processed_images[k].probe[2])

\* C2 amended: the size is kept, and each pixel outside the rectangle keeps
\* its R, G and B bytes; it is byte-identical when the page was rasterized in
\* RGB, and has lost its alpha byte when the page was rasterized in RGBA.
C2_OutsideRGBIdentical ==
    /\ \A k \in 1 .. Len(processed_images) :
          /\ processed_images[k].width = images[k].width
          /\ processed_images[k].height = images[k].height
          /\ processed_images[k].mode = "RGB"
    /\ \A k \in OutsideObserved :
          LET before == RasterPixel(images[k], processed_images[k].probe[1],
                                    processed_images[k].probe[2])
              after == processed_images[k].val
          IN  /\ Len(after) = 3
              /\ \A c \in 1 .. 3 : after[c] = before[c]
              /\ images[k].mode = "RGB" => after = before
              /\ images[k].mode = "RGBA" => Len(before) = 4

\* an RGBA page wider and taller than the region has been processed, its
\* observed pixel being the one just left of the rectangle's bottom row
C2_Witness ==
    \E k \in OutsideObserved :
        /\ images[k].mode = "RGBA"
        /\ images[k].width > 150
        /\ processed_images[k].probe = <<images[k].width - 151, images[k].height - 1>>

\* C3: every pixel of the output image inside the watermark rectangle has
\* its R, G, B in 0..255 and within 2 of the same channel of one of the three
\* reference colours sampled for that page.  The references of the page
\* last sampled are in pixel_bottom_right, pixel_top and pixel_left.
NearReference(color) ==
    \E ref \in {pixel_bottom_right, pixel_top, pixel_left} :
        \A c \in 1 .. 3 :
            /\ color[c] \in 0 .. 255
            /\ color[c] - ref[c] \in -2 .. 2

InsideRect(img) ==
    /\ img.probe # <<>>
    /\ rect.x1 <= img.probe[1] /\ img.probe[1] < rect.x2
    /\ rect.y1 <= img.probe[2] /\ img.probe[2] < rect.y2

C3_PatchNearReference ==
    /\ pc = "append" /\ InsideRect(image) => NearReference(image.val)
    /\ pc \notin {"patch", "append"} /\ i >= 1 /\ InsideRect(processed_images[i])
          => NearReference(processed_images[i].val)

\* an observed pixel inside the rectangle has been clamped at 255 and at 0
C3_Witness ==
    /\ pc = "page_head" /\ i >= 1 /\ InsideRect(processed_images[i])
    /\ processed_images[i].val[1] = 255
    /\ processed_images[i].val[2] = 0
    /\ pixel_top # pixel_bottom_right

\* C4: for a page image of width w and height h the patch loop iterates over
\* x1 = w-150, y1 = h-35, x2 = w, y2 = h, that is 150 x 35 = 5250 draw.point
\* calls per page whatever the dpi and the page size; a 1000 x 700 image
\* gives (850,665)-(1000,700).
C4_FixedRectangle ==
    /\ pc \in {"patch", "append"} =>
          /\ rect = [x1 |-> image.width - 150, y1 |-> image.height - 35,
                     x2 |-> image.width, y2 |-> image.height]
          /\ image.width = 1000 /\ image.height = 700 =>
                rect = [x1 |-> 850, y1 |-> 665, x2 |-> 1000, y2 |-> 700]
    /\ pc = "patch" => point_calls = 0
    /\ pc = "append" => point_calls = 5250

\* a 1000 x 700 page has been patched at 200 dpi
C4_Witness ==
    /\ pc = "append" /\ dpi = 200
    /\ image.width = 1000 /\ image.height = 700
    /\ rect.x1 = 850 /\ rect.y1 = 665
    /\ point_calls = 5250

\* C5: when convert_from_path returns no page image, neither loop body runs,
\* no progress fraction is divided by the page count, no error is raised up
\* to the save, and what is saved is a presentation of 0 slides.
C5_EmptyDocument ==
    Rasterized /\ images = <<>> =>
        /\ err \in {"", "OutputWriteFailed"}
        /\ pc \in {"page_head", "deck", "slide_head", "save", "returned", "raised",
                    "exited"}
        /\ pc = "raised" => err = "OutputWriteFailed"
        /\ i = 0 /\ j = 0 /\ processed_images = <<>> /\ slides = <<>>
        /\ pc \in {"returned", "exited"} /\ err = "" => saved = << <<>> >>
        /\ prog = "app" => \A k \in 1 .. Len(progress_log) : progress_log[k][2] # 0

\* the web handler has returned after saving the empty presentation
C5_Witness ==
    /\ prog = "app" /\ Rasterized /\ images = <<>>
    /\ pc = "returned" /\ err = ""
    /\ saved = << <<>> >>

\* the errors that report an unreadable source: the rasterizer's own
\* exception (xtrans.py), gr.Error "Error reading PDF" (app.py)
SourceUnreadable == {"RasterizerError", "gr.Error: Error reading PDF"}

\* C6: when convert_from_path fails, a source-unreadable error is raised to
\* the caller, convert_from_path is not called again, no page is processed
\* and nothing is saved, in both front ends.
C6_RasterFailure ==
    /\ convert_calls <= 1
    /\ raster = "failed" =>
          /\ err \in SourceUnreadable
          /\ prog = "app" => pc = "raised"
          /\ prog = "xtrans" => pc \in {"raised", "exited"}
          /\ images = <<>> /\ i = 0 /\ processed_images = <<>>
          /\ reads = {} /\ point_calls = 0
          /\ slides = <<>> /\ saved = <<>>
    /\ err \in SourceUnreadable => raster = "failed"

\* the command-line program has exited after a failed rasterization
C6_Witness ==
    /\ prog = "xtrans" /\ raster = "failed" /\ pc = "exited"
    /\ err = "RasterizerError" /\ saved = <<>>

\* C7: main() ends with status 0 when the conversion succeeds, 1 when the
\* input path does not exist (the conversion is not called), 1 on any error
\* (a non-integer dpi included), 0 when the file selection is cancelled, and
\* with no other status.
C7_ExitCodes ==
    /\ pc # "exited" => exit_code = -1
    /\ pc = "exited" =>
          /\ exit_code \in {0, 1}
          /\ err # "" => exit_code = 1
          /\ cause = "missing" => exit_code = 1 /\ ~entered /\ convert_calls = 0
          /\ cause = "argument_error" => exit_code = 1 /\ err = "ValueError" /\ ~entered
          /\ cause = "cancelled" => exit_code = 0 /\ ~entered
          /\ Len(saved) = 1 /\ err = "" => exit_code = 0
          /\ exit_code = 0 => \/ cause = "cancelled"
                              \/ Len(saved) = 1 /\ err = "" /\ entered

\* main() has exited with status 1 because a page failed
C7_Witness ==
    /\ pc = "exited" /\ exit_code = 1
    /\ err = "PageFailure" /\ cause = "processing_error"

\* what a run has produced so far
Produced == <<i, processed_images, j, slides, saved>>

C8_Order ==
    /\ Len(saved) <= 1
    /\ slides # <<>> => /\ Rasterized
                        /\ i = Len(images)
                        /\ Len(processed_images) = Len(images)
    /\ saved # <<>> => /\ Rasterized
                       /\ i = Len(images)
                       /\ Len(processed_images) = Len(images)
                       /\ j = Len(images)
                       /\ Len(slides) = Len(images)
                       /\ saved[1] = slides

C8_Abort ==
    /\ err # "" => Produced' = Produced
    /\ err = "" /\ err' # "" => Produced' = Produced /\ pc' \in {"raised", "exited"}

\* C8: the output is written at most once, only after all N pages have been
\* patched and all N slides added, and all pages are patched before the
\* first slide is added; once a step has failed, no page or slide is
\* processed and nothing is saved.
C8_SaveLastOrNever == []C8_Order /\ [][C8_Abort]_vars

\* the second slide of a two-page document failed after the first was added
C8_Witness ==
    /\ err = "SlideFailure" /\ Len(images) = 2
    /\ Len(slides) = 1 /\ saved = <<>>

\* fractions <<n, d>>, d > 0
Leq(a, b) == a[1] * b[2] <= b[1] * a[2]
Less(a, b) == a[1] * b[2] < b[1] * a[2]

\* C9: in app.py the progress sink gets one value in [0, 0.5) before each
\* page's watermark step and one value in [0.5, 1) before each slide's
\* assembly step; all values are in [0, 1] and never decrease, and a
\* successful run ends with 1.0.  (progress(0) opens the run and
\* progress(0.5) opens the slide loop.)
C9_Progress ==
    LET n == Len(progress_log)
        N == Len(images)
    IN  /\ prog = "xtrans" => progress_log = <<>>
        /\ \A k \in 1 .. n :
              /\ progress_log[k][2] > 0
              /\ Leq(<<0, 1>>, progress_log[k]) /\ Leq(progress_log[k], <<1, 1>>)
        /\ \A k \in 1 .. n - 1 : Leq(progress_log[k], progress_log[k + 1])
        /\ prog = "app" /\ pc = "page_head" => n = 1 + i
        /\ prog = "app" /\ pc \in {"sample", "patch", "append"} =>
              /\ n = 1 + (i + 1)
              /\ Leq(<<0, 1>>, progress_log[n]) /\ Less(progress_log[n], <<1, 2>>)
        /\ prog = "app" /\ pc = "slide_head" => n = 1 + N + 1 + j
        /\ prog = "app" /\ pc = "add_slide" =>
              /\ n = 1 + N + 1 + (j + 1)
              /\ Leq(<<1, 2>>, progress_log[n]) /\ Less(progress_log[n], <<1, 1>>)
        /\ prog = "app" /\ pc = "returned" /\ saved # <<>> =>
              /\ n = 2 * N + 3
              /\ progress_log[n] = <<1, 1>>

\* the web handler has returned from a two-page document
C9_Witness ==
    /\ prog = "app" /\ pc = "returned" /\ Len(saved) = 1
    /\ Len(images) = 2 /\ Len(progress_log) = 7
    /\ progress_log[3] = <<1, 4>> /\ progress_log[6] = <<3, 4>>

\* C10: on every page of at least one pixel, each reference read is inside
\* the image or is replaced by the bottom-right colour, and the reads are
\* made before any pixel of the page is written.
C10_SafeSampling ==
    pc \in {"patch", "append"} =>
        /\ reads # {}
        /\ \A xy \in reads : InBounds(image, xy[1], xy[2])
        /\ <<image.width - 1, image.height - 1>> \in reads
        /\ rect.y1 > 0 => <<image.width - 1, rect.y1 - 1>> \in reads
        /\ rect.y1 <= 0 => pixel_top = pixel_bottom_right
        /\ rect.x1 > 0 => <<rect.x1 - 1, image.height - 1>> \in reads
        /\ rect.x1 <= 0 => pixel_left = pixel_bottom_right
        /\ Cardinality(reads) <= 3
        /\ reads_after = 0
        /\ \A ref \in {pixel_bottom_right, pixel_top, pixel_left} :
              Len(ref) = IF image.mode = "RGB" THEN 3 ELSE 4

\* a page narrower than the region but taller: the left read is replaced,
\* the top read is made
C10_Witness ==
    /\ pc = "append"
    /\ image.width = 100 /\ image.height = 50
    /\ reads = {<<99, 49>>, <<99, 14>>}
    /\ pixel_left = pixel_bottom_right /\ pixel_top # pixel_bottom_right

====
